---- MODULE Spec2Model ----
(***************************************************************************)
(* Model of scan.py: an OpenAPI-driven endpoint prober.                    *)
(*                                                                         *)
(* main() downloads the OpenAPI document (get_json), walks its `paths`     *)
(* mapping in iteration order, and for every path that declares `get`      *)
(* calls fetch_api, classifies the returned status, prints a report line   *)
(* and sleeps.  Strings are TLA+ strings handled with Len, \o and SubSeq,  *)
(* so str.replace, slicing and formatting are computed, not assumed.       *)
(*                                                                         *)
(* The console, the network and the clock are recorded in one ordered log  *)
(* `events`; every record has the fields ev, tag, text, num.               *)
(***************************************************************************)
EXTENDS Integers, Sequences, FiniteSets, TLC

VARIABLES
  pc,        \* control position of the process
  spec,      \* main: `spec`, the value returned by get_json
  paths,     \* main: `paths`, as the sequence of its (path, methods) items
  i,         \* main: position of the for-loop iterator in paths.items()
  path,      \* main: loop variable `path`; also the argument of fetch_api
  fa_path,   \* fetch_api: its local `path` while the replaces are applied
  full_url,  \* fetch_api: `full_url`
  resp,      \* what the server answered to the last endpoint request
  status,    \* main: `status`
  body,      \* main: `body`
  events,    \* ordered log of prints, requests, sleeps, tracebacks
  exitCode   \* process exit status, -1 while running

vars == <<pc, spec, paths, i, path, fa_path, full_url, resp, status, body,
          events, exitCode>>

-----------------------------------------------------------------------------
(* Bounds of the model *)

MaxPaths == 2

MaxPieces == 3

-----------------------------------------------------------------------------
(* Configuration constants, scan.py lines 7-16 *)

TOKEN == "JXeWdITivc2N0neAHWYxpriQcRpiiOvF2vJmIhBgnSs"

OPENAPI_URL == "https://api.adultdatalink.com/openapi.json"

BASE_URL == "https://api.adultdatalink.com"

GREEN == "\\033[92m"

RED == "\\033[91m"

YELLOW == "\\033[93m"

RESET == "\\033[0m"

-----------------------------------------------------------------------------
(* Python string primitives *)

RECURSIVE Rep(_, _)
\* s * n
Rep(s, n) == IF n <= 0 THEN "" ELSE s \o Rep(s, n - 1)

\* s[:n]
Slice(s, n) == IF Len(s) <= n THEN s ELSE SubSeq(s, 1, n)

\* s[n:]
Drop(s, n) == IF Len(s) <= n THEN "" ELSE SubSeq(s, n + 1, Len(s))

StartsWith(s, t) == Len(s) >= Len(t) /\ SubSeq(s, 1, Len(t)) = t

Digit(d) == SubSeq("0123456789", d + 1, d + 1)

RECURSIVE IntStr(_)
\* str(n) for n >= 0
IntStr(n) == IF n < 10 THEN Digit(n) ELSE IntStr(n \div 10) \o Digit(n % 10)

\* f"{s:<w}": pad on the right up to width w, never truncate
PadLeftAlign(s, w) == s \o Rep(" ", w - Len(s))

-----------------------------------------------------------------------------
(* fetch_api: path materialization and URL, scan.py lines 27-38 *)

RECURSIVE ReplaceFirstOnly(_, _, _)
\* s.replace(old, new, 1): only the first occurrence is replaced
ReplaceFirstOnly(s, old, new) ==
  IF Len(s) < Len(old) THEN s
  ELSE IF StartsWith(s, old) THEN new \o Drop(s, Len(old))
  ELSE SubSeq(s, 1, 1) \o ReplaceFirstOnly(Drop(s, 1), old, new)

RECURSIVE Replace(_, _, _)
\* s.replace(old, new): every non-overlapping occurrence, left to right
Replace(s, old, new) ==
  IF Len(s) < Len(old) THEN s
  ELSE IF StartsWith(s, old)
       THEN new \o Replace(Drop(s, Len(old)), old, new)
       ELSE SubSeq(s, 1, 1) \o Replace(Drop(s, 1), old, new)

\* the seven replace calls of lines 29-35, in their order
Materialize(p) ==
  LET p1 == Replace(p,  "{video_id}", "12345")
      p2 == Replace(p1, "{id}", "1")
      p3 == Replace(p2, "{category}", "anal")
      p4 == Replace(p3, "{pornstar_name}", "mia-khalifa")
      p5 == Replace(p4, "{username}", "admin")
      p6 == Replace(p5, "{keyword}", "teen")
      p7 == Replace(p6, "{q}", "latest")
  IN  p7

QUERY_STRING == "?q=latest&page=1&sort=date"

\* line 38
FullUrl(p) == BASE_URL \o p \o QUERY_STRING

\* lines 40-47: the request object handed to urlopen
ProbeRequest(url) ==
  [ev |-> "request", tag |-> "AutoScanner/1.0", text |-> url, num |-> 0]

\* lines 20-21: the request of get_json
SpecRequest(url) ==
  [ev |-> "request", tag |-> "Mozilla/5.0", text |-> url, num |-> 0]

-----------------------------------------------------------------------------
(* What the remote server can answer.                                      *)
(* conn = FALSE: no HTTP response (refused, DNS, timeout); text is str(e). *)
(* conn = TRUE: a response with status `code`; `decodable` tells whether   *)
(* its bytes are valid UTF-8, `text` is the decoded body when they are.    *)

ConnRefused == "<urlopen error [Errno 111] Connection refused>"

DecodeErrorText == "'utf-8' codec can't decode byte 0xff in position 0: invalid start byte"

NoAnswer == [conn |-> FALSE, code |-> 0, decodable |-> TRUE, text |-> ConnRefused]

Answer(code, text) == [conn |-> TRUE, code |-> code, decodable |-> TRUE, text |-> text]

Binary(code) == [conn |-> TRUE, code |-> code, decodable |-> FALSE, text |-> ""]

\* urlopen returns the response only for a 2xx status; any other status is
\* raised as urllib.error.HTTPError (lines 50, 52)
IsHTTPError(r) == r.conn /\ ~(200 <= r.code /\ r.code < 300)

\* lines 49-55: the try statement of fetch_api.  An exception raised inside
\* the `except HTTPError` clause is not handled by the clause that follows it.
FetchResult(r) ==
  IF ~r.conn
    THEN [raised |-> FALSE, status |-> 0, body |-> r.text]
  ELSE IF IsHTTPError(r)
    THEN IF r.decodable
           THEN [raised |-> FALSE, status |-> r.code, body |-> r.text]
           ELSE [raised |-> TRUE, status |-> 0, body |-> DecodeErrorText]
  ELSE IF r.decodable
           THEN [raised |-> FALSE, status |-> r.code, body |-> r.text]
           ELSE [raised |-> FALSE, status |-> 0, body |-> DecodeErrorText]

-----------------------------------------------------------------------------
(* Python values produced by json.loads for an error body.                 *)
(* t is the Python type; s the text of a str; n the value of an int;       *)
(* items the elements of a list, or the <<key, value>> pairs of a dict.    *)

PyNone == [t |-> "None", s |-> "", n |-> 0, items |-> <<>>]

PyStr(s) == [t |-> "str", s |-> s, n |-> 0, items |-> <<>>]

PyInt(n) == [t |-> "int", s |-> "", n |-> n, items |-> <<>>]

PyList(items) == [t |-> "list", s |-> "", n |-> 0, items |-> items]

PyDict(pairs) == [t |-> "dict", s |-> "", n |-> 0, items |-> pairs]

\* json.loads raised (json.JSONDecodeError)
JsonInvalid == [t |-> "invalid", s |-> "", n |-> 0, items |-> <<>>]

LongBody == Rep("x", 60)

\* json.loads on the error bodies the model's server can send
JsonLoads(text) ==
  CASE text = "{\"detail\": \"x is required\"}" ->
         PyDict(<< <<"detail", PyStr("x is required")>> >>)
    [] text = "{\"detail\": [\"a\", \"b\"]}" ->
         PyDict(<< <<"detail", PyList(<<PyStr("a"), PyStr("b")>>)>> >>)
    [] text = "{\"detail\": \"\", \"message\": \"m\"}" ->
         PyDict(<< <<"detail", PyStr("")>>, <<"message", PyStr("m")>> >>)
    [] text = "{\"detail\": []}" ->
         PyDict(<< <<"detail", PyList(<<>>)>> >>)
    [] text = "{\"detail\": 0, \"message\": [\"e\"]}" ->
         PyDict(<< <<"detail", PyInt(0)>>,
                   <<"message", PyList(<<PyStr("e")>>)>> >>)
    [] text = "{\"detail\": null}" ->
         PyDict(<< <<"detail", PyNone>> >>)
    [] text = "{\"detail\": {\"loc\": \"q\"}}" ->
         PyDict(<< <<"detail", PyDict(<< <<"loc", PyStr("q")>> >>)>> >>)
    [] text = "{\"message\": \"m\"}" ->
         PyDict(<< <<"message", PyStr("m")>> >>)
    [] text = "{\"code\": 7}" ->
         PyDict(<< <<"code", PyInt(7)>> >>)
    [] text = "{}" -> PyDict(<<>>)
    [] text = "[\"a\"]" -> PyList(<<PyStr("a")>>)
    [] text = "\"oops\"" -> PyStr("oops")
    [] text = "null" -> PyNone
    [] OTHER -> JsonInvalid

\* bool(v)
Truthy(v) ==
  CASE v.t = "str" -> v.s # ""
    [] v.t = "int" -> v.n # 0
    [] v.t = "list" -> Len(v.items) > 0
    [] v.t = "dict" -> Len(v.items) > 0
    [] OTHER -> FALSE

\* d.get(k): the value stored under k, None when the key is absent
DictGet(d, k) ==
  IF \E j \in 1..Len(d.items) : d.items[j][1] = k
    THEN d.items[CHOOSE j \in 1..Len(d.items) : d.items[j][1] = k][2]
    ELSE PyNone

RECURSIVE Repr(_)
RECURSIVE JoinRepr(_, _)
\* ", ".join of the reprs of items[k..]
JoinRepr(items, k) ==
  IF k > Len(items) THEN ""
  ELSE (IF items[k].t = "pair"
          THEN "'" \o items[k].s \o "': " \o Repr(items[k].items[1])
          ELSE Repr(items[k]))
       \o (IF k < Len(items) THEN ", " ELSE "")
       \o JoinRepr(items, k + 1)

\* <<key, value>> as an element JoinRepr can render
AsPair(kv) == [t |-> "pair", s |-> kv[1], n |-> 0, items |-> <<kv[2]>>]

\* repr(v)
Repr(v) ==
  CASE v.t = "str" -> "'" \o v.s \o "'"
    [] v.t = "int" -> IntStr(v.n)
    [] v.t = "list" -> "[" \o JoinRepr(v.items, 1) \o "]"
    [] v.t = "dict" ->
         "{" \o JoinRepr([j \in 1..Len(v.items) |-> AsPair(v.items[j])], 1) \o "}"
    [] OTHER -> "None"

\* str(v), which is also what an f-string field prints
Str(v) == IF v.t = "str" THEN v.s ELSE Repr(v)

\* `a or b` written as "a unless a is None"
OrNotNone(a, b) == IF a.t # "None" THEN a ELSE b

\* a or b
Or(a, b) == IF Truthy(a) THEN a ELSE b

-----------------------------------------------------------------------------
(* Console output and classification, scan.py lines 73-96 *)

\* one call of the built-in that writes to standard output
Out(tag, text, num) == [ev |-> "print", tag |-> tag, text |-> text, num |-> num]

\* "-" * 50
Rule == Out("rule", Rep("-", 50), 0)

\* line 73
TestLine(p) == Out("test", "[TEST] " \o PadLeftAlign(p, 40) \o " ... ", 0)

\* the elif chain with `status in [400]`: 422 is no longer a PARAM ERROR
CategoryLine400Only(st) ==
  IF st = 200 THEN Out("SUCCESS", GREEN \o "SUCCESS (200)" \o RESET, st)
  ELSE IF st = 404 THEN Out("NOT FOUND", RED \o "NOT FOUND (404)" \o RESET, st)
  ELSE IF st \in {400}
    THEN Out("PARAM ERROR", YELLOW \o "PARAM ERROR (" \o IntStr(st) \o ")" \o RESET, st)
  ELSE Out("FAILED", RED \o "FAILED (" \o IntStr(st) \o ")" \o RESET, st)

\* lines 77-78, 81-84, 95-96: the category print of the if/elif chain
CategoryLine(st) ==
  IF st = 200 THEN Out("SUCCESS", GREEN \o "SUCCESS (200)" \o RESET, st)
  ELSE IF st = 404 THEN Out("NOT FOUND", RED \o "NOT FOUND (404)" \o RESET, st)
  ELSE IF st \in {400, 422}
    THEN Out("PARAM ERROR", YELLOW \o "PARAM ERROR (" \o IntStr(st) \o ")" \o RESET, st)
  ELSE Out("FAILED", RED \o "FAILED (" \o IntStr(st) \o ")" \o RESET, st)

HintPrefix == "       -> Hint: "

RawPrefix == "       -> Raw: "

\* line 94
RawLine(b) == Out("raw", RawPrefix \o Slice(b, 50) \o "...", 0)

\* line 88
ErrMsg(err_json) ==
  Or(Or(DictGet(err_json, "detail"), DictGet(err_json, "message")),
     PyStr("Unknown error"))

\* lines 86-94: the try statement under PARAM ERROR.  json.loads raising, or
\* err_json having no .get (it is not a dict), both land in the bare except.
HintLine(b) ==
  LET err_json == JsonLoads(b)
  IN  IF err_json.t = "invalid" THEN RawLine(b)
      ELSE IF err_json.t # "dict" THEN RawLine(b)
      ELSE LET msg0 == ErrMsg(err_json)
               msg  == IF msg0.t = "list" THEN PyStr(Str(msg0)) ELSE msg0
           IN  Out("hint", HintPrefix \o Str(msg), 0)

\* lines 77-96: everything printed for one probe result
ReportLines(st, b) ==
  IF st \in {400, 422} THEN <<CategoryLine(st), HintLine(b)>>
  ELSE <<CategoryLine(st)>>

\* line 99
SleepEvent == [ev |-> "sleep", tag |-> "time.sleep", text |-> "0.2", num |-> 0]

\* the interpreter's report of an uncaught exception (standard error)
Traceback(what) == [ev |-> "traceback", tag |-> what, text |-> "", num |-> 0]

-----------------------------------------------------------------------------
(* The OpenAPI document and get_json, scan.py lines 18-25 *)

PathTemplates == {"/videos/{video_id}", "/users/{username}/posts/{id}", "/tags/{tag}"}

MethodSets == {{"get"}, {"post"}, {"get", "post"}}

PathItems == [path : PathTemplates, methods : MethodSets]

\* the items of a `paths` object: keys are distinct, order is document order
PathMaps ==
  { m \in UNION { [1..n -> PathItems] : n \in 0..MaxPaths } :
      \A a, b \in DOMAIN m : a # b => m[a].path # m[b].path }

\* json.loads of the document body: t is "invalid" when it raises, "list" for
\* valid JSON that is not an object, "dict" for an object
JsonDoc(t, hasPaths, ps) == [t |-> t, hasPaths |-> hasPaths, paths |-> ps]

NoSpec == JsonDoc("unset", FALSE, <<>>)

SpecAnswer(conn, code, decodable, json) ==
  [conn |-> conn, code |-> code, decodable |-> decodable, json |-> json]

SpecAnswers ==
  { SpecAnswer(FALSE, 0, TRUE, NoSpec),
    SpecAnswer(TRUE, 500, TRUE, JsonDoc("invalid", FALSE, <<>>)),
    SpecAnswer(TRUE, 404, TRUE, JsonDoc("dict", FALSE, <<>>)),
    SpecAnswer(TRUE, 200, FALSE, NoSpec),
    SpecAnswer(TRUE, 200, TRUE, JsonDoc("invalid", FALSE, <<>>)),
    SpecAnswer(TRUE, 200, TRUE, JsonDoc("list", FALSE, <<>>)),
    SpecAnswer(TRUE, 200, TRUE, JsonDoc("dict", FALSE, <<>>)) }
  \cup { SpecAnswer(TRUE, 200, TRUE, JsonDoc("dict", TRUE, m)) : m \in PathMaps }

\* lines 19-25: does the try body of get_json raise, and with what text
GetJsonError(r) ==
  IF ~r.conn THEN ConnRefused
  ELSE IF IsHTTPError(r) THEN "HTTP Error " \o IntStr(r.code)
  ELSE IF ~r.decodable THEN DecodeErrorText
  ELSE IF r.json.t = "invalid" THEN "Expecting value: line 1 column 1 (char 0)"
  ELSE ""

\* line 24
FatalLine(cause) ==
  Out("fatal", RED \o "Failed to download OpenAPI spec: " \o cause \o RESET, 0)

\* what the endpoints answer in the whole-program specification
ProbeAnswers ==
  { NoAnswer,
    Answer(200, "{}"),
    Answer(201, "{}"),
    Binary(200),
    Answer(404, "{\"message\": \"m\"}"),
    Binary(404),
    Answer(422, "{\"detail\": \"x is required\"}"),
    Answer(400, "not json"),
    Answer(500, "") }

-----------------------------------------------------------------------------
(* The process: main(), scan.py lines 57-102 *)

Init ==
  /\ pc = "main"
  /\ spec = NoSpec
  /\ paths = <<>>
  /\ i = 0
  /\ path = ""
  /\ fa_path = ""
  /\ full_url = ""
  /\ resp = NoAnswer
  /\ status = -1
  /\ body = ""
  /\ events = <<>>
  /\ exitCode = -1

\* lines 58-60 and 20-21: banner, then get_json sends its request
Start ==
  /\ pc = "main"
  /\ events' = events \o <<Rule, Out("line", "1. Downloading OpenAPI Spec...", 0),
                           SpecRequest(OPENAPI_URL)>>
  /\ pc' = "get_json"
  /\ UNCHANGED <<spec, paths, i, path, fa_path, full_url, resp, status, body, exitCode>>

\* lines 23-25: get_json catches the exception, prints and calls sys.exit(1)
GetJsonFail ==
  /\ pc = "get_json"
  /\ \E r \in SpecAnswers :
       /\ GetJsonError(r) # ""
       /\ events' = Append(events, FatalLine(GetJsonError(r)))
  /\ pc' = "exited"
  /\ exitCode' = 1
  /\ UNCHANGED <<spec, paths, i, path, fa_path, full_url, resp, status, body>>

\* line 22 returns the parsed value; then lines 60-66 of main.  spec.get on a
\* value that is not a dict raises AttributeError, which nothing catches.
GetJsonReturn ==
  /\ pc = "get_json"
  /\ \E r \in SpecAnswers :
       /\ GetJsonError(r) = ""
       /\ spec' = r.json
       /\ IF r.json.t # "dict"
            THEN /\ events' = Append(events, Traceback("AttributeError"))
                 /\ pc' = "crashed"
                 /\ exitCode' = 1
                 /\ UNCHANGED <<paths, i>>
            ELSE /\ paths' = (IF r.json.hasPaths THEN r.json.paths ELSE <<>>)
                 /\ events' = events \o
                      <<Out("found", "   Found " \o IntStr(Len(paths')) \o " paths definition.",
                            Len(paths')),
                        Rule, Out("line", "2. Starting Scan...", 0), Rule>>
                 /\ i' = 1
                 /\ pc' = "loop"
                 /\ UNCHANGED exitCode
  /\ UNCHANGED <<path, fa_path, full_url, resp, status, body>>

\* lines 68-71: the next item has no `get`: continue
SkipPath ==
  /\ pc = "loop"
  /\ i <= Len(paths)
  /\ "get" \notin paths[i].methods
  /\ path' = paths[i].path
  /\ i' = i + 1
  /\ UNCHANGED <<pc, spec, paths, fa_path, full_url, resp, status, body, events, exitCode>>

\* lines 68-75: the next item has `get`: print the test line, call fetch_api
ProbePath ==
  /\ pc = "loop"
  /\ i <= Len(paths)
  /\ "get" \in paths[i].methods
  /\ path' = paths[i].path
  /\ events' = Append(events, TestLine(paths[i].path))
  /\ pc' = "fetch_api"
  /\ UNCHANGED <<spec, paths, i, fa_path, full_url, resp, status, body, exitCode>>

\* lines 27-50: materialize the path, build the URL, send the request
FetchApiSend ==
  /\ pc = "fetch_api"
  /\ fa_path' = Materialize(path)
  /\ full_url' = FullUrl(fa_path')
  /\ events' = Append(events, ProbeRequest(full_url'))
  /\ pc' = "urlopen"
  /\ UNCHANGED <<spec, paths, i, path, resp, status, body, exitCode>>

\* lines 49-55 and 75: urlopen returns or raises; fetch_api returns
\* (status, body) or lets the exception of its except clause escape
FetchApiReturn ==
  /\ pc = "urlopen"
  /\ \E r \in ProbeAnswers :
       /\ resp' = r
       /\ IF FetchResult(r).raised
            THEN /\ events' = Append(events, Traceback("UnicodeDecodeError"))
                 /\ pc' = "crashed"
                 /\ exitCode' = 1
                 /\ UNCHANGED <<status, body>>
            ELSE /\ status' = FetchResult(r).status
                 /\ body' = FetchResult(r).body
                 /\ pc' = "classify"
                 /\ UNCHANGED <<events, exitCode>>
  /\ UNCHANGED <<spec, paths, i, path, fa_path, full_url>>

\* lines 77-96
Classify ==
  /\ pc = "classify"
  /\ events' = events \o ReportLines(status, body)
  /\ pc' = "sleep"
  /\ UNCHANGED <<spec, paths, i, path, fa_path, full_url, resp, status, body, exitCode>>

\* the loop body without its last statement
SleepOmitted ==
  /\ pc = "sleep"
  /\ i' = i + 1
  /\ pc' = "loop"
  /\ UNCHANGED <<spec, paths, path, fa_path, full_url, resp, status, body, events, exitCode>>

\* line 99, then back to the loop head
Sleep ==
  /\ pc = "sleep"
  /\ events' = Append(events, SleepEvent)
  /\ i' = i + 1
  /\ pc' = "loop"
  /\ UNCHANGED <<spec, paths, path, fa_path, full_url, resp, status, body, exitCode>>

\* lines 101-102: the iterator is exhausted; main returns
ScanComplete ==
  /\ pc = "loop"
  /\ i > Len(paths)
  /\ events' = events \o <<Rule, Out("line", "Scan Complete.", 0)>>
  /\ pc' = "done"
  /\ exitCode' = 0
  /\ UNCHANGED <<spec, paths, i, path, fa_path, full_url, resp, status, body>>

Next ==
  \/ Start
  \/ GetJsonFail
  \/ GetJsonReturn
  \/ SkipPath
  \/ ProbePath
  \/ FetchApiSend
  \/ FetchApiReturn
  \/ Classify
  \/ Sleep
  \/ ScanComplete

Spec == Init /\ [][Next]_vars

-----------------------------------------------------------------------------
(* fetch_api on its own: called with an arbitrary path template *)

Pieces ==
  {"/", "{", "}", "id", "{id}", "{video_id}", "{q}", "{category}",
   "{pornstar_name}", "{username}", "{keyword}", "{tag}"}

RECURSIVE Concat(_, _)
Concat(ps, k) == IF k > Len(ps) THEN "" ELSE ps[k] \o Concat(ps, k + 1)

PathInputs ==
  { Concat(ps, 1) : ps \in UNION { [1..n -> Pieces] : n \in 0..MaxPieces } }

InitFetch ==
  /\ pc = "fetch_api"
  /\ path \in PathInputs
  /\ spec = NoSpec
  /\ paths = <<>>
  /\ i = 0
  /\ fa_path = ""
  /\ full_url = ""
  /\ resp = NoAnswer
  /\ status = -1
  /\ body = ""
  /\ events = <<>>
  /\ exitCode = -1

NextFetch ==
  \/ FetchApiSend
  \/ FetchApiReturn

SpecFetch == InitFetch /\ [][NextFetch]_vars

-----------------------------------------------------------------------------
(* The classification step on its own: entered with any result that        *)
(* fetch_api can return                                                    *)

StatusCodes == {200, 201, 204, 304, 400, 401, 403, 404, 418, 422, 429, 500, 503}

ErrorBodies ==
  { "{\"detail\": \"x is required\"}",
    "{\"detail\": [\"a\", \"b\"]}",
    "{\"detail\": \"\", \"message\": \"m\"}",
    "{\"detail\": []}",
    "{\"detail\": 0, \"message\": [\"e\"]}",
    "{\"detail\": null}",
    "{\"detail\": {\"loc\": \"q\"}}",
    "{\"message\": \"m\"}",
    "{\"code\": 7}",
    "{}",
    "[\"a\"]",
    "\"oops\"",
    "null",
    "not json",
    "",
    LongBody }

ClassifyAnswers ==
  {NoAnswer} \cup { Answer(c, t) : c \in StatusCodes, t \in ErrorBodies }
             \cup { Binary(c) : c \in StatusCodes }

InitClassify ==
  /\ pc = "classify"
  /\ resp \in ClassifyAnswers
  /\ ~FetchResult(resp).raised
  /\ status = FetchResult(resp).status
  /\ body = FetchResult(resp).body
  /\ spec = NoSpec
  /\ paths = <<>>
  /\ i = 0
  /\ path = ""
  /\ fa_path = ""
  /\ full_url = ""
  /\ events = <<>>
  /\ exitCode = -1

NextClassify == Classify

SpecClassify == InitClassify /\ [][NextClassify]_vars

-----------------------------------------------------------------------------
(* Vocabulary of the properties *)

RECURSIVE Contains(_, _)
\* t occurs in s
Contains(s, t) ==
  IF Len(s) < Len(t) THEN FALSE
  ELSE StartsWith(s, t) \/ Contains(Drop(s, 1), t)

RECURSIVE Count(_, _)
\* the number of non-overlapping occurrences of t in s
Count(s, t) ==
  IF Len(s) < Len(t) THEN 0
  ELSE IF StartsWith(s, t) THEN 1 + Count(Drop(s, Len(t)), t)
  ELSE Count(Drop(s, 1), t)

CategoryTags == {"SUCCESS", "NOT FOUND", "PARAM ERROR", "FAILED"}

HintTags == {"hint", "raw"}

IsPrint(e) == e.ev = "print"

IsCategory(e) == e.ev = "print" /\ e.tag \in CategoryTags

IsHint(e) == e.ev = "print" /\ e.tag \in HintTags

IsSleep(e) == e.ev = "sleep"

IsProbeRequest(e) == e.ev = "request" /\ e.tag = "AutoScanner/1.0"

Terminated == pc \in {"done", "exited", "crashed"}

\* the expected document was loaded: get_json returned a JSON object
Loaded == spec.t = "dict"

\* the paths of the items that declare `get`, in the order of the mapping
GetPaths(ps) ==
  LET sel == SelectSeq(ps, LAMBDA it : "get" \in it.methods)
  IN  [k \in 1..Len(sel) |-> sel[k].path]

RECURSIVE CompletedFrom(_, _)
\* the texts of the test prints that were completed by a category print,
\* that is, the report lines that reached their end of line
CompletedFrom(ps, k) ==
  IF k > Len(ps) THEN <<>>
  ELSE IF ps[k].tag = "test" /\ k < Len(ps) /\ ps[k + 1].tag \in CategoryTags
         THEN <<ps[k].text>> \o CompletedFrom(ps, k + 1)
         ELSE CompletedFrom(ps, k + 1)

ReportLineStarts == CompletedFrom(SelectSeq(events, IsPrint), 1)

ProbeUrls ==
  LET rs == SelectSeq(events, IsProbeRequest)
  IN  [k \in 1..Len(rs) |-> rs[k].text]

\* the placeholder table as the specification describes it
PlaceholderTable ==
  << <<"{video_id}", "12345">>, <<"{id}", "1">>, <<"{category}", "anal">>,
     <<"{pornstar_name}", "mia-khalifa">>, <<"{username}", "admin">>,
     <<"{keyword}", "teen">>, <<"{q}", "latest">> >>

RECURSIVE SubstAll(_)
\* one left-to-right pass that replaces each known token where it stands and
\* copies every other character
SubstAll(s) ==
  IF Len(s) = 0 THEN ""
  ELSE IF \E k \in DOMAIN PlaceholderTable : StartsWith(s, PlaceholderTable[k][1])
    THEN LET k == CHOOSE k \in DOMAIN PlaceholderTable :
                     StartsWith(s, PlaceholderTable[k][1])
         IN  PlaceholderTable[k][2] \o SubstAll(Drop(s, Len(PlaceholderTable[k][1])))
    ELSE SubSeq(s, 1, 1) \o SubstAll(Drop(s, 1))

ExpectedCategory(st) ==
  CASE st = 200 -> "SUCCESS"
    [] st = 404 -> "NOT FOUND"
    [] st = 400 \/ st = 422 -> "PARAM ERROR"
    [] OTHER -> "FAILED"

-----------------------------------------------------------------------------
(* C1 *)

\* C1: when a run over a loaded document has ended, the report lines printed
\* are exactly the paths of the mapping that declare `get`, one line per such
\* path, in the mapping's order, none for a path without `get`.
C1_ReportLinesAreGetPaths ==
  (Terminated /\ Loaded) =>
     ReportLineStarts =
       [k \in 1..Len(GetPaths(paths)) |-> TestLine(GetPaths(paths)[k]).text]

-----------------------------------------------------------------------------
(* C2 *)

\* C2: the classification step prints exactly one category, which is the one
\* the status determines (200 SUCCESS, 404 NOT FOUND, 400/422 PARAM ERROR,
\* anything else including 0 FAILED) with the status number in it, and a
\* hint line, never empty, if and only if the category is PARAM ERROR.
C2_CategoryIsFunctionOfStatus ==
  pc = "sleep" =>
    LET cats  == SelectSeq(events, IsCategory)
        hints == SelectSeq(events, IsHint)
    IN  /\ Len(cats) = 1
        /\ events[1] = cats[1]
        /\ cats[1].tag = ExpectedCategory(status)
        /\ cats[1].num = status
        /\ Contains(cats[1].text,
                    ExpectedCategory(status) \o " (" \o IntStr(status) \o ")")
        /\ Len(hints) = (IF status \in {400, 422} THEN 1 ELSE 0)
        /\ Len(events) = Len(cats) + Len(hints)
        /\ \A k \in 1..Len(hints) :
             \/ /\ StartsWith(hints[k].text, HintPrefix)
                /\ Len(hints[k].text) > Len(HintPrefix)
             \/ /\ StartsWith(hints[k].text, RawPrefix)
                /\ Len(hints[k].text) > Len(RawPrefix)

C2_Witness ==
  /\ pc = "sleep"
  /\ status = 422
  /\ Len(events) = 2
  /\ events[1].tag = "PARAM ERROR"
  /\ events[2].tag = "hint"

-----------------------------------------------------------------------------
(* C3 *)

\* C3: once get_json has ended without delivering the expected document
\* (transport failure, non-2xx status, a body that does not parse into a JSON
\* object), exactly one download-failure message has been printed, the
\* process has terminated with a non-zero status, and no endpoint request
\* and no report line exist.
C3_FetchFailureIsReportedAndFatal ==
  (pc \notin {"main", "get_json"} /\ ~Loaded) =>
     /\ Len(SelectSeq(events, LAMBDA e : e.ev = "print" /\ e.tag = "fatal")) = 1
     /\ Terminated
     /\ exitCode > 0
     /\ Len(SelectSeq(events, IsProbeRequest)) = 0
     /\ Len(SelectSeq(events, LAMBDA e : e.ev = "print" /\ e.tag = "test")) = 0

-----------------------------------------------------------------------------
(* C4 *)

\* C4: once an endpoint has been requested, nothing that the endpoint
\* answers aborts the scan: the process never ends by an uncaught exception.
C4_ProbeFailureNeverAborts ==
  Len(SelectSeq(events, IsProbeRequest)) > 0 => pc # "crashed"

-----------------------------------------------------------------------------
(* C5 *)

\* C5: the materialized path is the template with every occurrence of every
\* known token replaced by its literal, whatever the other tokens around it;
\* no known token is left, the unknown placeholder {tag} occurs as often as
\* before, and materializing the result again changes nothing.
C5_Materialization ==
  pc # "fetch_api" =>
    /\ fa_path = SubstAll(path)
    /\ \A k \in DOMAIN PlaceholderTable : ~Contains(fa_path, PlaceholderTable[k][1])
    /\ Count(fa_path, "{tag}") = Count(path, "{tag}")
    /\ Materialize(fa_path) = fa_path
    /\ full_url = BASE_URL \o fa_path \o "?q=latest&page=1&sort=date"

C5_Witness ==
  /\ pc = "urlopen"
  /\ path = "{id}{tag}{id}"
  /\ fa_path = "1{tag}1"

-----------------------------------------------------------------------------
(* C6 *)

HasKey(d, k) == \E j \in 1..Len(d.items) : d.items[j][1] = k

\* the field is in the document and holds something other than null
Present(d, k) == HasKey(d, k) /\ DictGet(d, k).t # "None"

\* the field is in the document and holds a value Python takes as true
Usable(d, k) == HasKey(d, k) /\ Truthy(DictGet(d, k))

\* C6 as stated: for status 400 or 422, a body that parses as an error
\* document gives the value of `detail` when the document has it, else the
\* value of `message`, else "Unknown error", a list in its string form; a body
\* that does not parse gives its first 50 characters and an ellipsis.
C6_HintAsStated ==
  (pc = "sleep" /\ status \in {400, 422}) =>
    LET j == JsonLoads(body)
        v == IF Present(j, "detail") THEN DictGet(j, "detail")
             ELSE IF Present(j, "message") THEN DictGet(j, "message")
             ELSE PyStr("Unknown error")
    IN  /\ j.t = "dict" => events[2].text = HintPrefix \o Str(v)
        /\ j.t = "invalid" =>
             events[2].text = RawPrefix \o Slice(body, 50) \o "..."

\* C6 amended: `detail` and `message` are used only when they hold a value
\* Python takes as true (not null, false, 0, "", [] or {}); otherwise the next
\* fallback applies.  A body that is valid JSON but not an object gives the
\* raw preview, like a body that does not parse.
C6_HintAmended ==
  (pc = "sleep" /\ status \in {400, 422}) =>
    LET j == JsonLoads(body)
        v == IF Usable(j, "detail") THEN DictGet(j, "detail")
             ELSE IF Usable(j, "message") THEN DictGet(j, "message")
             ELSE PyStr("Unknown error")
    IN  /\ Len(events) = 2
        /\ j.t = "dict" =>
             /\ events[2].tag = "hint"
             /\ events[2].text = HintPrefix \o (IF v.t = "str" THEN v.s ELSE Repr(v))
        /\ j.t # "dict" =>
             /\ events[2].tag = "raw"
             /\ events[2].text =
                  RawPrefix \o (IF Len(body) > 50 THEN SubSeq(body, 1, 50) ELSE body)
                            \o "..."

C6_Witness ==
  /\ pc = "sleep"
  /\ status = 422
  /\ body = "{\"detail\": []}"
  /\ events[2].text = HintPrefix \o "Unknown error"

-----------------------------------------------------------------------------
(* C7 *)

\* C7: when a run over a loaded document has ended, the endpoint requests
\* issued are exactly one per path that declares `get`, in order, each to the
\* base URL, the materialized path and the fixed query string, and none for
\* a path without `get`.
C7_OneRequestPerGetPath ==
  (Terminated /\ Loaded) =>
     ProbeUrls =
       [k \in 1..Len(GetPaths(paths)) |->
          BASE_URL \o SubstAll(GetPaths(paths)[k]) \o "?q=latest&page=1&sort=date"]

-----------------------------------------------------------------------------
(* C8 *)

\* C8: the status fetch_api returns is the status code of the server's
\* response whenever there was a response, and is 0 only when there was
\* none, the body then being the text of the exception.
C8_StatusIsServerStatus ==
  pc = "classify" =>
    /\ resp.conn => status = resp.code
    /\ status = 0 => (~resp.conn /\ body = resp.text)

-----------------------------------------------------------------------------
(* C9 *)

\* C9: every pause directly follows the report output of a probe; every
\* reported probe gets its pause before anything else happens; between two
\* consecutive endpoint requests there is exactly one pause; a finished scan
\* has paused once per path with `get`, so a skipped path causes no pause.
C9_OnePauseAfterEachProbe ==
  LET reqs   == { k \in DOMAIN events : IsProbeRequest(events[k]) }
      sleeps == { k \in DOMAIN events : IsSleep(events[k]) }
      cats   == { k \in DOMAIN events : IsCategory(events[k]) }
  IN  /\ \A k \in sleeps :
           k > 1 /\ (IsCategory(events[k - 1]) \/ IsHint(events[k - 1]))
      /\ Cardinality(sleeps) = Cardinality(cats) - (IF pc = "sleep" THEN 1 ELSE 0)
      /\ \A j, k \in reqs :
           (j < k /\ ~\E m \in reqs : j < m /\ m < k) =>
              Cardinality({ m \in sleeps : j < m /\ m < k }) = 1
      /\ pc = "done" => Cardinality(sleeps) = Len(GetPaths(paths))

C9_Witness ==
  /\ pc = "urlopen"
  /\ status = 0
  /\ Len(SelectSeq(events, IsProbeRequest)) = 2
  /\ Len(SelectSeq(events, IsSleep)) = 1
  /\ events[Len(events) - 2].ev = "sleep"

-----------------------------------------------------------------------------
(* C10 *)

IsCompleteBanner(e) == e.ev = "print" /\ e.text = "Scan Complete."

\* C10: a run that loaded the document ends normally, with the completion
\* banner printed exactly once and last; a run ends with a non-zero status
\* only when the document was not loaded, and then without the banner.
C10_CompletesUnlessFetchFails ==
  Terminated =>
    /\ Loaded =>
         /\ pc = "done"
         /\ exitCode = 0
         /\ Len(SelectSeq(events, IsCompleteBanner)) = 1
         /\ IsCompleteBanner(events[Len(events)])
    /\ exitCode # 0 =>
         /\ ~Loaded
         /\ Len(SelectSeq(events, IsCompleteBanner)) = 0

====
